---- MODULE Spec2Model ----
(***************************************************************************)
(* Model of the Tracker_Live backend (backend/server.js): the two-file     *)
(* draft / published document store, the draft-publish-discard workflow,   *)
(* the activity-log operations that act on the published document, and     *)
(* the accounts kept in users.json.                                        *)
(*                                                                         *)
(* A file is the text it holds, kept as the sequence of its JSON tokens    *)
(* (white space is not a token, so the indentation argument of             *)
(* JSON.stringify(data, null, 2) leaves no trace).  JavaScript values are  *)
(* tagged records; an object is the sequence of its <<key, value>> pairs   *)
(* in insertion order, which is the order JSON.stringify emits them in.    *)
(***************************************************************************)
EXTENDS Integers, Sequences, FiniteSets, TLC

(***************************************************************************)
(* State                                                                   *)
(***************************************************************************)
VARIABLES
    DATA_FILE,      \* the file at DATA_FILE (data.json): the published document
    DRAFT_FILE,     \* the file at DRAFT_FILE (draft.json): the draft document
    req,            \* the request handled last: its route, body and parameters
    res,            \* the response to it: HTTP status and JSON body
    prev,           \* the request before req: "publish", "discard" or "other"
    since,          \* since the last publish: "clean" (no save, no log write),
                    \* "log" (log writes only), "save" (a save, or no publish yet)
    inflight,       \* the requests received and not yet answered, by number:
                    \* route, body, position of the handler, its local data
    USERS_FILE      \* the file at USERS_FILE (users.json): the accounts

vars == <<DATA_FILE, DRAFT_FILE, req, res, prev, since, inflight, USERS_FILE>>

(***************************************************************************)
(* JavaScript values                                                       *)
(***************************************************************************)
Undefined == [t |-> "undefined"]
Null      == [t |-> "null"]
Bool(b)   == [t |-> "bool", b |-> b]
Num(n)    == [t |-> "num", n |-> n]
Str(s)    == [t |-> "str", s |-> s]
Arr(a)    == [t |-> "arr", a |-> a]
Obj(kv)   == [t |-> "obj", kv |-> kv]

\* Array.isArray(v)
IsArray(v) == v.t = "arr"

\* ToBoolean(v): what `!v` and `v && ...` test
Truthy(v) ==
    CASE v.t = "undefined" -> FALSE
      [] v.t = "null"      -> FALSE
      [] v.t = "bool"      -> v.b
      [] v.t = "num"       -> v.n # 0
      [] v.t = "str"       -> v.s # ""
      [] OTHER             -> TRUE

\* the index of key k among the pairs kv, 0 when the object has no such key
KeyIndex(kv, k) ==
    IF \E i \in 1..Len(kv) : kv[i][1] = k
    THEN CHOOSE i \in 1..Len(kv) : kv[i][1] = k
    ELSE 0

\* obj[k] = v on a plain object: an existing key keeps its place
SetKey(kv, k, v) ==
    IF KeyIndex(kv, k) = 0
    THEN Append(kv, <<k, v>>)
    ELSE [kv EXCEPT ![KeyIndex(kv, k)] = <<k, v>>]

\* v.k for a value that is neither null nor undefined (those throw)
Get(v, k) ==
    IF v.t = "obj" /\ KeyIndex(v.kv, k) # 0
    THEN v.kv[KeyIndex(v.kv, k)][2]
    ELSE Undefined

\* v.k throws a TypeError
GetThrows(v) == v.t \in {"undefined", "null"}

\* String.prototype.toLowerCase over the letters the model uses
toLowerCase(s) ==
    CASE s = "A"            -> "a"
      [] s = "B"            -> "b"
      [] s = "X"            -> "x"
      [] s = "UnknownGroup" -> "unknowngroup"
      [] OTHER              -> s

(***************************************************************************)
(* JSON text                                                               *)
(***************************************************************************)
P(c) == <<"p", c>>      \* punctuation and the literals null, true, false
S(s) == <<"s", s>>      \* a string literal
N(n) == <<"n", n>>      \* a number literal

RECURSIVE stringify(_)
RECURSIVE stringifyElems(_)
RECURSIVE stringifyMembers(_, _)

\* the elements of an array, separated by commas; undefined is written null
stringifyElems(a) ==
    IF a = <<>> THEN <<>>
    ELSE (IF Head(a).t = "undefined" THEN <<P("null")>> ELSE stringify(Head(a)))
         \o (IF Tail(a) = <<>> THEN <<>> ELSE <<P(",")>> \o stringifyElems(Tail(a)))

\* the members of an object in insertion order; undefined members are left out
stringifyMembers(kv, first) ==
    IF kv = <<>> THEN <<>>
    ELSE IF Head(kv)[2].t = "undefined" THEN stringifyMembers(Tail(kv), first)
    ELSE (IF first THEN <<>> ELSE <<P(",")>>)
         \o <<S(Head(kv)[1]), P(":")>> \o stringify(Head(kv)[2])
         \o stringifyMembers(Tail(kv), FALSE)

\* JSON.stringify(v) for a defined v
stringify(v) ==
    CASE v.t = "null" -> <<P("null")>>
      [] v.t = "bool" -> <<P(IF v.b THEN "true" ELSE "false")>>
      [] v.t = "num"  -> <<N(v.n)>>
      [] v.t = "str"  -> <<S(v.s)>>
      [] v.t = "arr"  -> <<P("[")>> \o stringifyElems(v.a) \o <<P("]")>>
      [] v.t = "obj"  -> <<P("{")>> \o stringifyMembers(v.kv, TRUE) \o <<P("}")>>

IsP(tok, c) == tok[1] = "p" /\ tok[2] = c

SyntaxError == [ok |-> FALSE, val |-> Undefined, rest |-> <<>>]
Parsed(v, rest) == [ok |-> TRUE, val |-> v, rest |-> rest]

RECURSIVE parseValue(_)
RECURSIVE parseElems(_, _)
RECURSIVE parseMembers(_, _)

\* after "[" or after a ",": one element, then "," or "]"
parseElems(toks, acc) ==
    LET e == parseValue(toks) IN
    IF ~e.ok \/ e.rest = <<>> THEN SyntaxError
    ELSE IF IsP(Head(e.rest), "]") THEN Parsed(Arr(Append(acc, e.val)), Tail(e.rest))
    ELSE IF IsP(Head(e.rest), ",") THEN parseElems(Tail(e.rest), Append(acc, e.val))
    ELSE SyntaxError

\* after "{" or after a ",": one "key": value member, then "," or "}"
parseMembers(toks, acc) ==
    IF Len(toks) < 2 \/ Head(toks)[1] # "s" \/ ~IsP(toks[2], ":") THEN SyntaxError
    ELSE LET k == Head(toks)[2]
             m == parseValue(Tail(Tail(toks)))
         IN  IF ~m.ok \/ m.rest = <<>> THEN SyntaxError
             ELSE IF IsP(Head(m.rest), "}")
                  THEN Parsed(Obj(SetKey(acc, k, m.val)), Tail(m.rest))
             ELSE IF IsP(Head(m.rest), ",")
                  THEN parseMembers(Tail(m.rest), SetKey(acc, k, m.val))
             ELSE SyntaxError

parseValue(toks) ==
    IF toks = <<>> THEN SyntaxError
    ELSE LET h == Head(toks) r == Tail(toks) IN
         CASE h[1] = "s"      -> Parsed(Str(h[2]), r)
           [] h[1] = "n"      -> Parsed(Num(h[2]), r)
           [] IsP(h, "null")  -> Parsed(Null, r)
           [] IsP(h, "true")  -> Parsed(Bool(TRUE), r)
           [] IsP(h, "false") -> Parsed(Bool(FALSE), r)
           [] IsP(h, "[")     ->
                IF r # <<>> /\ IsP(Head(r), "]") THEN Parsed(Arr(<<>>), Tail(r))
                ELSE parseElems(r, <<>>)
           [] IsP(h, "{")     ->
                IF r # <<>> /\ IsP(Head(r), "}") THEN Parsed(Obj(<<>>), Tail(r))
                ELSE parseMembers(r, <<>>)
           [] OTHER           -> SyntaxError

\* JSON.parse(text): the value, or a SyntaxError when the text is not one
\* complete JSON value
parse(toks) ==
    LET p == parseValue(toks) IN
    IF p.ok /\ p.rest = <<>> THEN [ok |-> TRUE, val |-> p.val]
    ELSE [ok |-> FALSE, val |-> Undefined]

(***************************************************************************)
(* The file system: fs.existsSync, fs.readFileSync, fs.writeFileSync       *)
(***************************************************************************)
\* a path with no file, and a file holding the text toks
NoFile     == [exists |-> FALSE, text |-> <<>>]
File(toks) == [exists |-> TRUE, text |-> toks]

\* fs.writeFileSync(path, text): the file at path afterwards
writeFileSync(toks) == File(toks)

\* the literal '{"groups":[],"logs":[]}' of loadData and loadDraft
DefaultText ==
    << P("{"), S("groups"), P(":"), P("["), P("]"), P(","),
       S("logs"), P(":"), P("["), P("]"), P("}") >>

\* the object literal { groups: [], logs: [] }
EmptySnapshot == Obj(<< <<"groups", Arr(<<>>)>>, <<"logs", Arr(<<>>)>> >>)

(***************************************************************************)
(* PersistentStore: loadData, saveData, loadDraft, saveDraft               *)
(***************************************************************************)
\* loadData(), reading the file dataFile at DATA_FILE
loadData(dataFile) ==
    IF ~dataFile.exists THEN EmptySnapshot
    ELSE LET raw == dataFile.text
             p   == parse(IF raw = <<>> THEN DefaultText ELSE raw)
         IN  IF p.ok THEN p.val ELSE EmptySnapshot

\* saveData(data): the file at DATA_FILE afterwards
saveData(data) == writeFileSync(stringify(data))

\* loadDraft(), reading draftFile at DRAFT_FILE and falling back to loadData()
loadDraft(draftFile, dataFile) ==
    IF ~draftFile.exists THEN loadData(dataFile)
    ELSE LET raw == draftFile.text
             p   == parse(IF raw = <<>> THEN DefaultText ELSE raw)
         IN  IF p.ok THEN p.val ELSE loadData(dataFile)

\* saveDraft as a merge: the new logs are added to those of the stored draft
saveDraftMerged(data) ==
    LET old == loadDraft(DRAFT_FILE, DATA_FILE) IN
    writeFileSync(stringify(
        Obj(SetKey(data.kv, "logs", Arr(Get(old, "logs").a \o Get(data, "logs").a)))))

\* saveDraft(data): the file at DRAFT_FILE afterwards
saveDraft(data) == writeFileSync(stringify(data))

\* module start-up: DATA_FILE is created empty when it does not exist
EnsureDataFile(onDisk) ==
    IF ~onDisk.exists THEN writeFileSync(stringify(EmptySnapshot)) ELSE onDisk

\* start-up creating an empty draft instead of a copy of the published document
EnsureDraftFileEmpty(onDisk, dataFile) ==
    IF ~onDisk.exists THEN writeFileSync(stringify(EmptySnapshot)) ELSE onDisk

\* module start-up: DRAFT_FILE is created from loadData() when it does not exist
EnsureDraftFile(onDisk, dataFile) ==
    IF ~onDisk.exists THEN writeFileSync(stringify(loadData(dataFile))) ELSE onDisk

\* an account, and the two accounts of a new installation
User(username, password, role) ==
    Obj(<< <<"username", Str(username)>>, <<"password", Str(password)>>,
           <<"role", Str(role)>> >>)
defaultUsers ==
    Arr(<< User("admin", "admin123", "admin"), User("user", "user123", "user") >>)

\* module start-up: USERS_FILE is created with the default accounts when it
\* does not exist
EnsureUsersFile(onDisk) ==
    IF ~onDisk.exists THEN writeFileSync(stringify(defaultUsers)) ELSE onDisk

\* loadUsers(), reading the file usersFile at USERS_FILE: an empty file is the
\* empty list, a file that cannot be read or parsed gives the default accounts
loadUsers(usersFile) ==
    IF ~usersFile.exists THEN defaultUsers
    ELSE LET raw == usersFile.text
             p   == parse(IF raw = <<>> THEN << P("["), P("]") >> ELSE raw)
         IN  IF p.ok THEN p.val ELSE defaultUsers

\* saveUsers(users): the file at USERS_FILE afterwards
saveUsers(users) == writeFileSync(stringify(users))

(***************************************************************************)
(* Requests                                                                *)
(***************************************************************************)
\* the most log entries the published document is let grow to by POST /api/logs
MaxLogs == 2

D1 == "2024-01-01"
D2 == "2024-01-02"

\* log entries as clients send them; eAp is eA with its keys in another order
eA  == Obj(<< <<"ts", Num(1)>>, <<"date", Str(D1)>>, <<"type", Str("signin")>>,
              <<"group", Str("A")>> >>)
eAp == Obj(<< <<"group", Str("A")>>, <<"type", Str("signin")>>, <<"date", Str(D1)>>,
              <<"ts", Num(1)>> >>)
eN  == Obj(<< <<"ts", Str("3")>>, <<"date", Str(D2)>>, <<"type", Str("signin")>> >>)

gA == Obj(<< <<"name", Str("A")>> >>)

\* a Snapshot body with its two keys in either order
Snapshot(groups, logs, groupsFirst) ==
    IF groupsFirst
    THEN Obj(<< <<"groups", Arr(groups)>>, <<"logs", Arr(logs)>> >>)
    ELSE Obj(<< <<"logs", Arr(logs)>>, <<"groups", Arr(groups)>> >>)

\* bodies POST /api/save accepts: a document, the same document with its keys
\* in the other order, one whose log entry has its keys in another order, and
\* the empty document
ValidSaveBodies ==
    { Snapshot(<<gA>>, <<eA>>, TRUE),
      Snapshot(<<gA>>, <<eA>>, FALSE),
      Snapshot(<<gA>>, <<eAp>>, TRUE),
      Snapshot(<<>>, <<>>, TRUE) }

\* bodies POST /api/save refuses: no body, logs missing, groups not an array,
\* logs not an array
InvalidSaveBodies ==
    { Undefined,
      Obj(<< <<"groups", Arr(<<gA>>)>> >>),
      Obj(<< <<"groups", Str("A")>>, <<"logs", Arr(<<>>)>> >>),
      Obj(<< <<"groups", Arr(<<>>)>>, <<"logs", Obj(<<>>)>> >>) }

SaveBodies == ValidSaveBodies \cup InvalidSaveBodies

(***************************************************************************)
(* Start-up                                                                *)
(***************************************************************************)
Request(route, body, p1, p2) == [route |-> route, body |-> body, p1 |-> p1, p2 |-> p2]
Response(status, body) == [status |-> status, body |-> body]

\* text a crash in the middle of a write can leave behind
Truncated == << P("{"), S("groups"), P(":"), P("[") >>

\* what data.json and draft.json may hold when the server starts
DataOnDisk ==
    { NoFile, File(Truncated), File(stringify(Snapshot(<<gA>>, <<eA>>, TRUE))) }
DraftOnDisk ==
    { NoFile, File(<<>>), File(Truncated),
      File(stringify(Snapshot(<<gA>>, <<eA>>, FALSE))) }

\* the requests the server can hold at once
NumRequests == 2

\* a request slot nothing has been received in
Idle == [route |-> "", body |-> Undefined, pc |-> "idle", data |-> Undefined,
         status |-> 0, seq |-> 0]

\* no request is in flight: each is handled as it arrives
NoneInFlight == [i \in 1..NumRequests |-> Idle]

Init ==
    \E d \in DataOnDisk, r \in DraftOnDisk :
        /\ DATA_FILE = EnsureDataFile(d)
        /\ DRAFT_FILE = EnsureDraftFile(r, EnsureDataFile(d))
        /\ req = Request("startup", Undefined, "", "")
        /\ res = Response(0, Undefined)
        /\ prev = "other"
        /\ since = "save"
        /\ inflight = NoneInFlight
        /\ USERS_FILE = EnsureUsersFile(NoFile)

\* the routes that write DATA_FILE on behalf of the activity log
LogRoutes ==
    { "POST /api/logs", "DELETE /api/logs/:ts", "DELETE /api/logs/:groupName/:date" }

\* bookkeeping of prev and since for the request being answered
TrackReq ==
    /\ prev' = IF res.status = 200 /\ req.route = "POST /api/publish" THEN "publish"
               ELSE IF res.status = 200 /\ req.route = "POST /api/discard" THEN "discard"
               ELSE "other"
    /\ since' =
         IF res'.status # 200 THEN since
         ELSE IF req'.route = "POST /api/publish" THEN "clean"
         ELSE IF req'.route = "POST /api/save" THEN "save"
         ELSE IF req'.route \in LogRoutes /\ since = "clean" THEN "log"
         ELSE since

\* a request to the documents is handled as it arrives, with no other request
\* in flight, and leaves the accounts alone
Track ==
    /\ TrackReq
    /\ UNCHANGED <<inflight, USERS_FILE>>

(***************************************************************************)
(* DraftPublishController                                                  *)
(***************************************************************************)
\* app.get("/api/data")
GetData ==
    /\ req' = Request("GET /api/data", Undefined, "", "")
    /\ res' = Response(200, loadData(DATA_FILE))
    /\ UNCHANGED <<DATA_FILE, DRAFT_FILE>>
    /\ Track

\* GET /api/draft that repairs the draft file with what it answered
GetDraftRepair ==
    /\ req' = Request("GET /api/draft", Undefined, "", "")
    /\ res' = Response(200, loadDraft(DRAFT_FILE, DATA_FILE))
    /\ DRAFT_FILE' = saveDraft(loadDraft(DRAFT_FILE, DATA_FILE))
    /\ UNCHANGED DATA_FILE
    /\ Track

\* app.get("/api/draft")
GetDraft ==
    /\ req' = Request("GET /api/draft", Undefined, "", "")
    /\ res' = Response(200, loadDraft(DRAFT_FILE, DATA_FILE))
    /\ UNCHANGED <<DATA_FILE, DRAFT_FILE>>
    /\ Track

\* the test with the check of logs forgotten
SaveRefusedGroupsOnly(newData) ==
    \/ ~Truthy(newData)
    \/ ~IsArray(Get(newData, "groups"))

\* the test of app.post("/api/save"): the body is refused
SaveRefused(newData) ==
    \/ ~Truthy(newData)
    \/ ~IsArray(Get(newData, "groups"))
    \/ ~IsArray(Get(newData, "logs"))

\* POST /api/save as the first version of the server had it: the body is
\* written to the published document as well
PostSaveBoth(newData) ==
    /\ req' = Request("POST /api/save", newData, "", "")
    /\ IF SaveRefused(newData)
       THEN /\ res' = Response(400, Obj(<< <<"error", Str("Groups and logs must be arrays")>> >>))
            /\ UNCHANGED <<DATA_FILE, DRAFT_FILE>>
       ELSE /\ DRAFT_FILE' = saveDraft(newData)
            /\ DATA_FILE' = saveData(newData)
            /\ res' = Response(200, Obj(<< <<"status", Str("ok")>>, <<"target", Str("draft")>> >>))
    /\ Track

\* app.post("/api/save")
PostSave(newData) ==
    /\ req' = Request("POST /api/save", newData, "", "")
    /\ IF SaveRefused(newData)
       THEN /\ res' = Response(400, Obj(<< <<"error", Str("Groups and logs must be arrays")>> >>))
            /\ UNCHANGED <<DATA_FILE, DRAFT_FILE>>
       ELSE /\ DRAFT_FILE' = saveDraft(newData)
            /\ res' = Response(200, Obj(<< <<"status", Str("ok")>>, <<"target", Str("draft")>> >>))
            /\ UNCHANGED DATA_FILE
    /\ Track

\* publish as a move: the draft is emptied once it is published
PostPublishMove ==
    /\ req' = Request("POST /api/publish", Undefined, "", "")
    /\ DATA_FILE' = saveData(loadDraft(DRAFT_FILE, DATA_FILE))
    /\ DRAFT_FILE' = saveDraft(EmptySnapshot)
    /\ res' = Response(200, Obj(<< <<"status", Str("ok")>>,
                                   <<"message", Str("Published successfully")>> >>))
    /\ Track

\* app.post("/api/publish")
PostPublish ==
    /\ req' = Request("POST /api/publish", Undefined, "", "")
    /\ LET draft == loadDraft(DRAFT_FILE, DATA_FILE) IN
       DATA_FILE' = saveData(draft)
    /\ res' = Response(200, Obj(<< <<"status", Str("ok")>>,
                                   <<"message", Str("Published successfully")>> >>))
    /\ UNCHANGED DRAFT_FILE
    /\ Track

\* discard as a reset to the empty document instead of the published one
PostDiscardToEmpty ==
    /\ req' = Request("POST /api/discard", Undefined, "", "")
    /\ DRAFT_FILE' = saveDraft(EmptySnapshot)
    /\ res' = Response(200, Obj(<< <<"status", Str("ok")>>,
                                   <<"message", Str("Draft discarded")>> >>))
    /\ UNCHANGED DATA_FILE
    /\ Track

\* app.post("/api/discard")
PostDiscard ==
    /\ req' = Request("POST /api/discard", Undefined, "", "")
    /\ LET published == loadData(DATA_FILE) IN
       DRAFT_FILE' = saveDraft(published)
    /\ res' = Response(200, Obj(<< <<"status", Str("ok")>>,
                                   <<"message", Str("Draft discarded")>> >>))
    /\ UNCHANGED DATA_FILE
    /\ Track

\* the comparison made on the raw texts of the two files
hasChangesRaw(dataFile, draftFile) == dataFile.text # draftFile.text

\* the comparison of app.get("/api/draft-status"): published !== draft
hasChanges(dataFile, draftFile) ==
    LET published == stringify(loadData(dataFile))
        draft     == stringify(loadDraft(draftFile, dataFile))
    IN  published # draft

\* app.get("/api/draft-status")
GetDraftStatus ==
    /\ req' = Request("GET /api/draft-status", Undefined, "", "")
    /\ res' = Response(200, Obj(<< <<"hasChanges", Bool(hasChanges(DATA_FILE, DRAFT_FILE))>> >>))
    /\ UNCHANGED <<DATA_FILE, DRAFT_FILE>>
    /\ Track

(***************************************************************************)
(* LogLifecycleManager                                                     *)
(***************************************************************************)
\* the response Express sends when a handler throws outside any try block
Uncaught == Response(500, Undefined)

\* the document rebuilt from its logs alone: the other keys are lost
WithLogsOnly(data, logs) == Obj(<< <<"logs", Arr(logs)>> >>)

\* data.logs = logs on the loaded document
WithLogs(data, logs) == Obj(SetKey(data.kv, "logs", Arr(logs)))

\* data.logs.push / data.logs.filter throw: data.logs is not an array
LogsThrow(data) == ~IsArray(Get(data, "logs"))

\* app.get("/api/logs")
GetLogs ==
    /\ req' = Request("GET /api/logs", Undefined, "", "")
    /\ LET data == loadData(DATA_FILE) IN
       res' = IF GetThrows(data) THEN Uncaught
              ELSE IF Truthy(Get(data, "logs")) THEN Response(200, Get(data, "logs"))
              ELSE Response(200, Arr(<<>>))
    /\ UNCHANGED <<DATA_FILE, DRAFT_FILE>>
    /\ Track

\* the test of app.post("/api/logs"): the entry is refused
LogRefused(newLog) ==
    \/ ~Truthy(newLog)
    \/ ~Truthy(Get(newLog, "date"))
    \/ ~Truthy(Get(newLog, "type"))

\* app.post("/api/logs")
PostLogs(newLog) ==
    /\ req' = Request("POST /api/logs", newLog, "", "")
    /\ LET data == loadData(DATA_FILE) IN
       IF LogRefused(newLog)
       THEN /\ res' = Response(400, Obj(<< <<"error", Str("Invalid log format")>> >>))
            /\ UNCHANGED DATA_FILE
       ELSE IF LogsThrow(data)
       THEN /\ res' = Uncaught
            /\ UNCHANGED DATA_FILE
       ELSE /\ Len(Get(data, "logs").a) < MaxLogs
            /\ DATA_FILE' = saveData(WithLogs(data, Append(Get(data, "logs").a, newLog)))
            /\ res' = Response(200, Obj(<< <<"status", Str("ok")>>, <<"log", newLog>> >>))
    /\ UNCHANGED DRAFT_FILE
    /\ Track

RECURSIVE String(_)
RECURSIVE join(_)

\* Array.prototype.join(","): null and undefined elements give the empty string
join(a) ==
    IF a = <<>> THEN ""
    ELSE (IF Head(a).t \in {"undefined", "null"} THEN "" ELSE String(Head(a)))
         \o (IF Tail(a) = <<>> THEN "" ELSE "," \o join(Tail(a)))

\* String(v)
String(v) ==
    CASE v.t = "undefined" -> "undefined"
      [] v.t = "null"      -> "null"
      [] v.t = "bool"      -> IF v.b THEN "true" ELSE "false"
      [] v.t = "num"       -> ToString(v.n)
      [] v.t = "str"       -> v.s
      [] v.t = "arr"       -> join(v.a)
      [] v.t = "obj"       -> "[object Object]"

\* the handler comparing l.ts with the parameter by ===, without String()
DeleteLogByTsStrict(ts) ==
    /\ req' = Request("DELETE /api/logs/:ts", Undefined, ts, "")
    /\ LET data == loadData(DATA_FILE) IN
       IF LogsThrow(data) \/ \E i \in 1..Len(Get(data, "logs").a) :
                                  GetThrows(Get(data, "logs").a[i])
       THEN /\ res' = Uncaught
            /\ UNCHANGED DATA_FILE
       ELSE LET logs   == Get(data, "logs").a
                keep(l) == Get(l, "ts") # Str(ts)
                kept   == SelectSeq(logs, keep)
                before == Len(logs)
                after  == Len(kept)
            IN  /\ DATA_FILE' = saveData(WithLogs(data, kept))
                /\ res' = Response(200, Obj(<< <<"status", Str("deleted")>>,
                                               <<"ts", Str(ts)>>,
                                               <<"removed", Num(before - after)>> >>))
    /\ UNCHANGED DRAFT_FILE
    /\ Track

\* app.delete("/api/logs/:ts"): the first route a one-segment DELETE matches
DeleteLogByTs(ts) ==
    /\ req' = Request("DELETE /api/logs/:ts", Undefined, ts, "")
    /\ LET data == loadData(DATA_FILE) IN
       IF LogsThrow(data) \/ \E i \in 1..Len(Get(data, "logs").a) :
                                  GetThrows(Get(data, "logs").a[i])
       THEN /\ res' = Uncaught
            /\ UNCHANGED DATA_FILE
       ELSE LET logs   == Get(data, "logs").a
                keep(l) == String(Get(l, "ts")) # String(Str(ts))
                kept   == SelectSeq(logs, keep)
                before == Len(logs)
                after  == Len(kept)
            IN  /\ DATA_FILE' = saveData(WithLogs(data, kept))
                /\ res' = Response(200, Obj(<< <<"status", Str("deleted")>>,
                                               <<"ts", Str(ts)>>,
                                               <<"removed", Num(before - after)>> >>))
    /\ UNCHANGED DRAFT_FILE
    /\ Track

\* decodeURIComponent over the path segments the model uses
decodeURIComponent(s) ==
    CASE s = "%42" -> "B"
      [] OTHER     -> s

\* the filter callback without its rule for group-create and group-delete
CascadeKeepsNoLifecycle(log, decodedGroupName, decodedDate) ==
    IF Get(log, "date") # Str(decodedDate) THEN TRUE
    ELSE IF /\ Truthy(Get(log, "group"))
            /\ toLowerCase(Get(log, "group").s) = toLowerCase(decodedGroupName)
    THEN FALSE
    ELSE IF \/ ~Truthy(Get(log, "group"))
            \/ toLowerCase(Get(log, "group").s) = "unknowngroup"
    THEN FALSE
    ELSE TRUE

\* the filter callback of app.delete("/api/logs/:groupName/:date"): log is kept
CascadeKeeps(log, decodedGroupName, decodedDate) ==
    IF Get(log, "date") # Str(decodedDate) THEN TRUE
    ELSE IF Get(log, "type") = Str("group-create") \/ Get(log, "type") = Str("group-delete")
    THEN FALSE
    ELSE IF /\ Truthy(Get(log, "group"))
            /\ toLowerCase(Get(log, "group").s) = toLowerCase(decodedGroupName)
    THEN FALSE
    ELSE IF \/ ~Truthy(Get(log, "group"))
            \/ toLowerCase(Get(log, "group").s) = "unknowngroup"
    THEN FALSE
    ELSE TRUE

\* the filter callback throws: log is null, or log.group has no toLowerCase
CascadeThrows(log, decodedDate) ==
    \/ GetThrows(log)
    \/ /\ Get(log, "date") = Str(decodedDate)
       /\ Get(log, "type") # Str("group-create")
       /\ Get(log, "type") # Str("group-delete")
       /\ Truthy(Get(log, "group"))
       /\ Get(log, "group").t # "str"

\* app.delete("/api/logs/:groupName/:date")
DeleteLogsByGroupAndDate(groupName, date) ==
    /\ req' = Request("DELETE /api/logs/:groupName/:date", Undefined, groupName, date)
    /\ LET data             == loadData(DATA_FILE)
           decodedGroupName == decodeURIComponent(groupName)
           decodedDate      == decodeURIComponent(date)
       IN
       IF LogsThrow(data) \/ \E i \in 1..Len(Get(data, "logs").a) :
                                  CascadeThrows(Get(data, "logs").a[i], decodedDate)
       THEN /\ res' = Uncaught
            /\ UNCHANGED DATA_FILE
       ELSE LET logs    == Get(data, "logs").a
                keep(l) == CascadeKeeps(l, decodedGroupName, decodedDate)
                kept    == SelectSeq(logs, keep)
                removed == Len(logs) - Len(kept)
            IN  /\ DATA_FILE' = saveData(WithLogs(data, kept))
                /\ res' = Response(200, Obj(<< <<"status", Str("deleted")>>,
                                               <<"groupName", Str(decodedGroupName)>>,
                                               <<"date", Str(decodedDate)>>,
                                               <<"removed", Num(removed)>> >>))
    /\ UNCHANGED DRAFT_FILE
    /\ Track

\* the filter callback of app.delete("/api/logs/:groupName") throws: log is
\* null, or log.group is not a string and so has no toLowerCase
GroupThrows(log) ==
    \/ GetThrows(log)
    \/ Get(log, "group").t # "str"

\* app.delete("/api/logs/:groupName"), registered after "/api/logs/:ts"
DeleteLogsByGroup(groupName) ==
    /\ req' = Request("DELETE /api/logs/:groupName", Undefined, groupName, "")
    /\ LET data == loadData(DATA_FILE) IN
       IF LogsThrow(data) \/ \E i \in 1..Len(Get(data, "logs").a) :
                                  GroupThrows(Get(data, "logs").a[i])
       THEN /\ res' = Uncaught
            /\ UNCHANGED DATA_FILE
       ELSE LET logs    == Get(data, "logs").a
                keep(l) == toLowerCase(Get(l, "group").s)
                               # toLowerCase(decodeURIComponent(groupName))
                kept    == SelectSeq(logs, keep)
                before  == Len(logs)
                after   == Len(kept)
            IN  /\ DATA_FILE' = saveData(WithLogs(data, kept))
                /\ res' = Response(200, Obj(<< <<"status", Str("deleted")>>,
                                               <<"groupName", Str(decodeURIComponent(groupName))>>,
                                               <<"removed", Num(before - after)>> >>))
    /\ UNCHANGED DRAFT_FILE
    /\ Track

\* the routes a DELETE /api/logs/<segment> matches, in the order they were
\* registered: both patterns are one parameter, so both match every segment
OneSegmentRoutes == << "DELETE /api/logs/:ts", "DELETE /api/logs/:groupName" >>

\* Express runs the first matching route; neither handler calls next(), so
\* the request ends there
DeleteOneSegment(segment) ==
    IF OneSegmentRoutes[1] = "DELETE /api/logs/:ts"
    THEN DeleteLogByTs(segment)
    ELSE DeleteLogsByGroup(segment)

(***************************************************************************)
(* The server: one request at a time                                       *)
(***************************************************************************)
\* entries POST /api/logs accepts, and bodies it refuses: no date, no type,
\* an empty date
ValidLogBodies == { eN }
InvalidLogBodies ==
    { Obj(<< <<"type", Str("signin")>> >>),
      Obj(<< <<"date", Str(D1)>> >>),
      Obj(<< <<"date", Str("")>>, <<"type", Str("signin")>> >>) }
LogBodies == ValidLogBodies \cup InvalidLogBodies

TsParams    == { "1", "9" }
GroupParams == { "a" }
DateParams  == { D1, D2 }

Next ==
    \/ GetData
    \/ GetDraft
    \/ \E newData \in SaveBodies : PostSave(newData)
    \/ PostPublish
    \/ PostDiscard
    \/ GetDraftStatus
    \/ GetLogs
    \/ \E newLog \in LogBodies : PostLogs(newLog)
    \/ \E ts \in TsParams : DeleteLogByTs(ts)
    \/ \E groupName \in GroupParams, date \in DateParams :
           DeleteLogsByGroupAndDate(groupName, date)

Spec == Init /\ [][Next]_vars

(***************************************************************************)
(* The cascading deletion on its own: DELETE /api/logs/:groupName/:date    *)
(* applied to every short log over a richer set of entries                 *)
(***************************************************************************)
\* the longest log the cascading deletion is tried on
MaxCascadeLogs == 2

\* an entry of the given date and type; group is Undefined for an entry
\* without a group
CascadeEntry(date, type, group) ==
    Obj(<< <<"date", Str(date)>>, <<"type", Str(type)>> >>
        \o (IF group = Undefined THEN <<>> ELSE << <<"group", group>> >>))

CascadeGroups == { Undefined, Str(""), Str("A"), Str("b"), Str("UnknownGroup") }

\* on the first date a sign-in of every kind of group and the two lifecycle
\* markers, on the second date a sign-in of the group and one without group
CascadeEntries ==
    { CascadeEntry(D1, "signin", g) : g \in CascadeGroups }
    \cup { CascadeEntry(D1, "group-create", Str("b")),
           CascadeEntry(D1, "group-delete", Str("A")),
           CascadeEntry(D2, "signin", Str("A")),
           CascadeEntry(D2, "signin", Undefined) }

\* the log of the cascade scenario: ts 1 to 4
ScenarioEntry(ts, date, group, type) ==
    Obj(<< <<"ts", Num(ts)>>, <<"date", Str(date)>>, <<"group", Str(group)>>,
           <<"type", Str(type)>> >>)
ScenarioLogs ==
    << ScenarioEntry(1, D1, "A", "signin"),
       ScenarioEntry(2, D1, "X", "group-create"),
       ScenarioEntry(3, D1, "B", "signin"),
       ScenarioEntry(4, D2, "A", "signin") >>

RECURSIVE SeqsUpTo(_, _)
\* the sequences over the set E of length at most n
SeqsUpTo(E, n) ==
    IF n = 0 THEN { <<>> }
    ELSE LET shorter == SeqsUpTo(E, n - 1) IN
         shorter \cup { Append(q, x) : q \in shorter, x \in E }

\* the server started on a published document holding one of these logs, with
\* no draft file yet
InitCascade ==
    \E logs \in SeqsUpTo(CascadeEntries, MaxCascadeLogs) \cup { ScenarioLogs } :
        /\ DATA_FILE = EnsureDataFile(File(stringify(Snapshot(<<gA>>, logs, TRUE))))
        /\ DRAFT_FILE = EnsureDraftFile(NoFile, DATA_FILE)
        /\ req = Request("startup", Undefined, "", "")
        /\ res = Response(0, Undefined)
        /\ prev = "other"
        /\ since = "save"
        /\ inflight = NoneInFlight
        /\ USERS_FILE = EnsureUsersFile(NoFile)

CascadeGroupParams == { "A", "%42" }

NextCascade ==
    \/ \E groupName \in CascadeGroupParams, date \in DateParams :
           DeleteLogsByGroupAndDate(groupName, date)
    \/ GetLogs

SpecCascade == InitCascade /\ [][NextCascade]_vars

(***************************************************************************)
(* The log routes on their own: entries appended by POST /api/logs to a    *)
(* fresh installation and removed by DELETE /api/logs/<segment>            *)
(***************************************************************************)
\* entries with a numeric ts, the same ts as a string, another ts, and an
\* entry without group
t5  == Obj(<< <<"ts", Num(5)>>, <<"date", Str(D1)>>, <<"type", Str("signin")>>,
              <<"group", Str("A")>> >>)
t5s == Obj(<< <<"ts", Str("5")>>, <<"date", Str(D1)>>, <<"type", Str("signout")>>,
              <<"group", Str("a")>> >>)
t7  == Obj(<< <<"ts", Num(7)>>, <<"date", Str(D2)>>, <<"type", Str("signin")>>,
              <<"group", Str("B")>> >>)
t8  == Obj(<< <<"ts", Num(8)>>, <<"date", Str(D2)>>, <<"type", Str("signin")>> >>)
LogEntries == { t5, t5s, t7, t8 }

\* path segments: two ts some entries carry, a ts none carries, a group name
Segments == { "5", "7", "9", "A" }

\* a fresh installation: neither file exists when the server starts
InitLog ==
    /\ DATA_FILE = EnsureDataFile(NoFile)
    /\ DRAFT_FILE = EnsureDraftFile(NoFile, DATA_FILE)
    /\ req = Request("startup", Undefined, "", "")
    /\ res = Response(0, Undefined)
    /\ prev = "other"
    /\ since = "save"
    /\ inflight = NoneInFlight
    /\ USERS_FILE = EnsureUsersFile(NoFile)

NextLog ==
    \/ \E newLog \in LogEntries \cup InvalidLogBodies : PostLogs(newLog)
    \/ \E segment \in Segments : DeleteOneSegment(segment)
    \/ GetLogs

SpecLog == InitLog /\ [][NextLog]_vars

\* the handler of app.delete("/api/logs/:groupName") run on the same logs, as
\* it would be were its route the first to match
GroupSegments == { "A", "%42" }

NextByGroup ==
    \/ \E newLog \in LogEntries \cup InvalidLogBodies : PostLogs(newLog)
    \/ \E groupName \in GroupSegments : DeleteLogsByGroup(groupName)
    \/ GetLogs

SpecByGroup == InitLog /\ [][NextByGroup]_vars

(***************************************************************************)
(* Requests in flight: several requests are received before any is         *)
(* answered, and their handlers run in any order.  A handler is one        *)
(* synchronous callback (readFileSync, writeFileSync, no await)            *)
(***************************************************************************)
\* the entry and the draft request i sends: each carries the request's number
EntryOf(i) ==
    Obj(<< <<"ts", Num(i)>>, <<"date", Str(D2)>>, <<"type", Str("signout")>>,
           <<"group", Str("A")>> >>)
DraftOf(i) ==
    Snapshot(<< Obj(<< <<"name", Str("A")>>, <<"marker", Num(i)>> >>) >>,
             << EntryOf(i) >>, TRUE)

\* what request i may be: an append or a save, with a body accepted or refused
RequestsOf(i) ==
    { [route |-> "POST /api/logs", body |-> EntryOf(i)],
      [route |-> "POST /api/logs", body |-> Obj(<< <<"type", Str("signin")>> >>)],
      [route |-> "POST /api/save", body |-> DraftOf(i)],
      [route |-> "POST /api/save", body |-> Undefined] }

\* express.json() has read the body of request i: its handler is ready to run
Receive(i, r) ==
    /\ inflight[i].pc = "idle"
    /\ inflight' = [inflight EXCEPT ![i] = [Idle EXCEPT !.route = r.route,
                                                         !.body = r.body,
                                                         !.pc = "ready"]]
    /\ UNCHANGED <<DATA_FILE, DRAFT_FILE, USERS_FILE, req, res, prev, since>>

\* a scheduler that starts a handler while another is between two statements
CanStartAnyTime(i) == TRUE

\* Node runs a callback to its end before it starts another: the handler of
\* request i starts only when no handler is between two of its statements
CanStart(i) == \A j \in 1..NumRequests : inflight[j].pc # "loaded"

\* the requests answered so far
Answered == Cardinality({ j \in 1..NumRequests : inflight[j].pc = "done" })

\* res.json / res.status(...).json of the handler of request i
Answer(i, status, body) ==
    /\ req' = Request(inflight[i].route, inflight[i].body, "", "")
    /\ res' = Response(status, body)
    /\ inflight' = [inflight EXCEPT ![i].pc = "done",
                                    ![i].data = Undefined,
                                    ![i].status = status,
                                    ![i].seq = Answered + 1]
    /\ TrackReq
    /\ UNCHANGED USERS_FILE

\* app.post("/api/logs") up to const data = loadData()
LogsHandlerLoad(i) ==
    /\ inflight[i].pc = "ready"
    /\ inflight[i].route = "POST /api/logs"
    /\ CanStart(i)
    /\ IF LogRefused(inflight[i].body)
       THEN Answer(i, 400, Obj(<< <<"error", Str("Invalid log format")>> >>))
       ELSE /\ inflight' = [inflight EXCEPT ![i].pc = "loaded",
                                            ![i].data = loadData(DATA_FILE)]
            /\ UNCHANGED <<USERS_FILE, req, res, prev, since>>
    /\ UNCHANGED <<DATA_FILE, DRAFT_FILE>>

\* app.post("/api/logs") from data.logs.push(newLog) to the answer
LogsHandlerSave(i) ==
    /\ inflight[i].pc = "loaded"
    /\ LET data   == inflight[i].data
           newLog == inflight[i].body
       IN  IF LogsThrow(data)
           THEN /\ Answer(i, 500, Undefined)
                /\ UNCHANGED DATA_FILE
           ELSE /\ DATA_FILE' = saveData(WithLogs(data, Append(Get(data, "logs").a, newLog)))
                /\ Answer(i, 200, Obj(<< <<"status", Str("ok")>>, <<"log", newLog>> >>))
    /\ UNCHANGED DRAFT_FILE

\* app.post("/api/save"), one statement after the test of the body
SaveHandler(i) ==
    /\ inflight[i].pc = "ready"
    /\ inflight[i].route = "POST /api/save"
    /\ CanStart(i)
    /\ LET newData == inflight[i].body IN
       IF SaveRefused(newData)
       THEN /\ Answer(i, 400, Obj(<< <<"error", Str("Groups and logs must be arrays")>> >>))
            /\ UNCHANGED <<DATA_FILE, DRAFT_FILE>>
       ELSE /\ DRAFT_FILE' = saveDraft(newData)
            /\ Answer(i, 200, Obj(<< <<"status", Str("ok")>>, <<"target", Str("draft")>> >>))
            /\ UNCHANGED DATA_FILE

NextConcurrent ==
    \/ \E i \in 1..NumRequests : \E r \in RequestsOf(i) : Receive(i, r)
    \/ \E i \in 1..NumRequests : LogsHandlerLoad(i)
    \/ \E i \in 1..NumRequests : LogsHandlerSave(i)
    \/ \E i \in 1..NumRequests : SaveHandler(i)

SpecConcurrent == Init /\ [][NextConcurrent]_vars

(***************************************************************************)
(* Writes that do not finish.  fs.writeFileSync(path, text) opens the file *)
(* with flag "w", which empties it, and then writes the text from its      *)
(* start: there is no temporary file and no rename                         *)
(***************************************************************************)
\* what is in the file when the write stops after the file was emptied:
\* nothing, or the first half of the text
TornTexts(toks) ==
    { SubSeq(toks, 1, n) : n \in { 0, Len(toks) \div 2 } }

\* the ways a write of the text to the file can end early: the open is
\* refused and the file is as before, the write throws after the file was
\* emptied, or the process is killed during the write
Interrupted(file, toks) ==
    { [code |-> "EACCES", file |-> file] }
    \cup { [code |-> c, file |-> File(t)] :
               c \in { "ENOSPC", "SIGKILL" }, t \in TornTexts(toks) }

\* the answer to a request whose write ended early: none from a killed
\* process, else 500 from the catch block of the handler ("Publish failed: "
\* + err.message) or from the error handler of Express
Failure(o, caught) ==
    IF o.code = "SIGKILL" THEN Response(0, Undefined)
    ELSE IF caught = "" THEN Response(500, Str(o.code))
    ELSE Response(500, Obj(<< <<"error", Str(caught \o o.code)>> >>))

\* app.post("/api/save") when saveDraft(newData) does not finish
PostSaveInterrupted(newData) ==
    /\ ~SaveRefused(newData)
    /\ req' = Request("POST /api/save", newData, "", "")
    /\ \E o \in Interrupted(DRAFT_FILE, stringify(newData)) :
           /\ DRAFT_FILE' = o.file
           /\ res' = Failure(o, "")
    /\ UNCHANGED DATA_FILE
    /\ Track

\* app.post("/api/publish") when saveData(draft) does not finish
PostPublishInterrupted ==
    /\ req' = Request("POST /api/publish", Undefined, "", "")
    /\ LET draft == loadDraft(DRAFT_FILE, DATA_FILE) IN
       \E o \in Interrupted(DATA_FILE, stringify(draft)) :
           /\ DATA_FILE' = o.file
           /\ res' = Failure(o, "Publish failed: ")
    /\ UNCHANGED DRAFT_FILE
    /\ Track

\* app.post("/api/discard") when saveDraft(published) does not finish
PostDiscardInterrupted ==
    /\ req' = Request("POST /api/discard", Undefined, "", "")
    /\ LET published == loadData(DATA_FILE) IN
       \E o \in Interrupted(DRAFT_FILE, stringify(published)) :
           /\ DRAFT_FILE' = o.file
           /\ res' = Failure(o, "Discard failed: ")
    /\ UNCHANGED DATA_FILE
    /\ Track

\* app.post("/api/logs") when saveData(data) does not finish
PostLogsInterrupted(newLog) ==
    /\ ~LogRefused(newLog)
    /\ ~LogsThrow(loadData(DATA_FILE))
    /\ Len(Get(loadData(DATA_FILE), "logs").a) < MaxLogs
    /\ req' = Request("POST /api/logs", newLog, "", "")
    /\ LET data == loadData(DATA_FILE) IN
       \E o \in Interrupted(DATA_FILE,
                            stringify(WithLogs(data, Append(Get(data, "logs").a, newLog)))) :
           /\ DATA_FILE' = o.file
           /\ res' = Failure(o, "")
    /\ UNCHANGED DRAFT_FILE
    /\ Track

\* the server with writes that finish and writes that do not; a killed
\* process is started again, and start-up finds both files in place
FaultSaveBodies == { Snapshot(<<gA>>, <<eA>>, TRUE), Snapshot(<<>>, <<>>, TRUE) }

NextFaults ==
    \/ \E newData \in FaultSaveBodies : PostSave(newData)
    \/ PostPublish
    \/ PostDiscard
    \/ \E newLog \in ValidLogBodies : PostLogs(newLog)
    \/ \E newData \in FaultSaveBodies : PostSaveInterrupted(newData)
    \/ PostPublishInterrupted
    \/ PostDiscardInterrupted
    \/ \E newLog \in ValidLogBodies : PostLogsInterrupted(newLog)

SpecFaults == Init /\ [][NextFaults]_vars

(***************************************************************************)
(* The server started on files of any content: JSON.parse accepts every    *)
(* JSON value, and loadData and loadDraft return what it returns           *)
(***************************************************************************)
\* well-formed JSON that is not a document: null, [], {}, and a document
\* without logs
OtherShapes ==
    { File(<< P("null") >>),
      File(<< P("["), P("]") >>),
      File(<< P("{"), P("}") >>),
      File(stringify(Obj(<< <<"groups", Arr(<<gA>>)>> >>))) }

InitAnyContent ==
    \E d \in DataOnDisk \cup OtherShapes, r \in DraftOnDisk \cup OtherShapes :
        /\ DATA_FILE = EnsureDataFile(d)
        /\ DRAFT_FILE = EnsureDraftFile(r, EnsureDataFile(d))
        /\ req = Request("startup", Undefined, "", "")
        /\ res = Response(0, Undefined)
        /\ prev = "other"
        /\ since = "save"
        /\ inflight = NoneInFlight
        /\ USERS_FILE = EnsureUsersFile(NoFile)

\* the routes that read and write the documents without a body of their own
NextAnyContent ==
    \/ GetData
    \/ GetDraft
    \/ PostPublish
    \/ PostDiscard
    \/ GetLogs
    \/ \E newLog \in ValidLogBodies : PostLogs(newLog)
    \/ \E ts \in TsParams : DeleteLogByTs(ts)

SpecAnyContent == InitAnyContent /\ [][NextAnyContent]_vars

(***************************************************************************)
(* The accounts: GET and POST /api/users, POST /api/users/create,          *)
(* PUT and DELETE /api/users/:username.  Every handler is one try block    *)
(* whose catch answers 500                                                 *)
(***************************************************************************)
\* the longest list of accounts POST /api/users/create is tried on
MaxUsers == 3

\* a request to the accounts leaves the documents alone
TrackUsers ==
    /\ TrackReq
    /\ UNCHANGED <<DATA_FILE, DRAFT_FILE, inflight>>

\* !user.username || !user.password || !user.role
UserIncomplete(user) ==
    \/ ~Truthy(Get(user, "username"))
    \/ ~Truthy(Get(user, "password"))
    \/ ~Truthy(Get(user, "role"))

\* the least number of a non-empty set of numbers
Least(ns) == CHOOSE n \in ns : \A m \in ns : n <= m

\* users.findIndex(u => u.username === username), counted from 1; 0 is none
FindIndex(users, username) ==
    LET found == { i \in 1..Len(users.a) :
                       ~GetThrows(users.a[i]) /\ Get(users.a[i], "username") = username }
    IN  IF found = {} THEN 0 ELSE Least(found)

\* users.find / users.findIndex throws: users is not an array, or the
\* callback reaches an element that is null before any match
FindThrows(users, username) ==
    \/ ~IsArray(users)
    \/ \E i \in 1..Len(users.a) :
           /\ GetThrows(users.a[i])
           /\ FindIndex(users, username) = 0 \/ i < FindIndex(users, username)

\* app.get("/api/users")
GetUsers ==
    /\ req' = Request("GET /api/users", Undefined, "", "")
    /\ res' = Response(200, loadUsers(USERS_FILE))
    /\ UNCHANGED USERS_FILE
    /\ TrackUsers

\* app.post("/api/users"): the whole list is replaced
PostUsers(users) ==
    /\ req' = Request("POST /api/users", users, "", "")
    /\ IF ~IsArray(users)
       THEN /\ res' = Response(400, Obj(<< <<"error", Str("Users must be an array")>> >>))
            /\ UNCHANGED USERS_FILE
       ELSE LET bad == { i \in 1..Len(users.a) :
                             GetThrows(users.a[i]) \/ UserIncomplete(users.a[i]) }
            IN  IF bad # {} /\ GetThrows(users.a[Least(bad)])
                THEN /\ res' = Response(500, Obj(<< <<"error", Str("Failed to save users")>> >>))
                     /\ UNCHANGED USERS_FILE
                ELSE IF bad # {}
                THEN /\ res' = Response(400, Obj(<< <<"error",
                                 Str("Each user must have username, password, and role")>> >>))
                     /\ UNCHANGED USERS_FILE
                ELSE /\ USERS_FILE' = saveUsers(users)
                     /\ res' = Response(200, Obj(<< <<"status", Str("ok")>>,
                                                    <<"count", Num(Len(users.a))>> >>))
    /\ TrackUsers

\* the handler without its test of the username
PostUsersCreateAnyName(body) ==
    /\ req' = Request("POST /api/users/create", body, "", "")
    /\ LET username == Get(body, "username")
           password == Get(body, "password")
           role     == Get(body, "role")
           users    == loadUsers(USERS_FILE)
       IN  IF GetThrows(body)
           THEN /\ res' = Response(500, Obj(<< <<"error", Str("Failed to create user")>> >>))
                /\ UNCHANGED USERS_FILE
           ELSE IF ~Truthy(username) \/ ~Truthy(password) \/ ~Truthy(role)
           THEN /\ res' = Response(400, Obj(<< <<"error",
                            Str("Username, password, and role are required")>> >>))
                /\ UNCHANGED USERS_FILE
           ELSE IF FindThrows(users, username)
           THEN /\ res' = Response(500, Obj(<< <<"error", Str("Failed to create user")>> >>))
                /\ UNCHANGED USERS_FILE
           ELSE /\ Len(users.a) < MaxUsers
                /\ USERS_FILE' = saveUsers(Arr(Append(users.a,
                                     Obj(<< <<"username", username>>,
                                            <<"password", password>>,
                                            <<"role", role>> >>))))
                /\ res' = Response(200, Obj(<< <<"status", Str("ok")>>,
                                 <<"user", Obj(<< <<"username", username>>,
                                                  <<"role", role>> >>)>> >>))
    /\ TrackUsers

\* app.post("/api/users/create")
PostUsersCreate(body) ==
    /\ req' = Request("POST /api/users/create", body, "", "")
    /\ LET username == Get(body, "username")
           password == Get(body, "password")
           role     == Get(body, "role")
           users    == loadUsers(USERS_FILE)
       IN  IF GetThrows(body)
           THEN /\ res' = Response(500, Obj(<< <<"error", Str("Failed to create user")>> >>))
                /\ UNCHANGED USERS_FILE
           ELSE IF ~Truthy(username) \/ ~Truthy(password) \/ ~Truthy(role)
           THEN /\ res' = Response(400, Obj(<< <<"error",
                            Str("Username, password, and role are required")>> >>))
                /\ UNCHANGED USERS_FILE
           ELSE IF FindThrows(users, username)
           THEN /\ res' = Response(500, Obj(<< <<"error", Str("Failed to create user")>> >>))
                /\ UNCHANGED USERS_FILE
           ELSE IF FindIndex(users, username) # 0
           THEN /\ res' = Response(409, Obj(<< <<"error", Str("Username already exists")>> >>))
                /\ UNCHANGED USERS_FILE
           ELSE /\ Len(users.a) < MaxUsers
                /\ USERS_FILE' = saveUsers(Arr(Append(users.a,
                                     Obj(<< <<"username", username>>,
                                            <<"password", password>>,
                                            <<"role", role>> >>))))
                /\ res' = Response(200, Obj(<< <<"status", Str("ok")>>,
                                 <<"user", Obj(<< <<"username", username>>,
                                                  <<"role", role>> >>)>> >>))
    /\ TrackUsers

\* users[userIndex].k = v when v is truthy
SetIfTruthy(kv, k, v) == IF Truthy(v) THEN SetKey(kv, k, v) ELSE kv

\* app.put("/api/users/:username")
PutUser(username, body) ==
    /\ req' = Request("PUT /api/users/:username", body, username, "")
    /\ LET users     == loadUsers(USERS_FILE)
           userIndex == FindIndex(users, Str(username))
       IN  IF GetThrows(body) \/ FindThrows(users, Str(username))
           THEN /\ res' = Response(500, Obj(<< <<"error", Str("Failed to update user")>> >>))
                /\ UNCHANGED USERS_FILE
           ELSE IF userIndex = 0
           THEN /\ res' = Response(404, Obj(<< <<"error", Str("User not found")>> >>))
                /\ UNCHANGED USERS_FILE
           ELSE LET named   == SetIfTruthy(users.a[userIndex].kv, "username",
                                           Get(body, "newUsername"))
                    keyed   == SetIfTruthy(named, "password", Get(body, "password"))
                    updated == Obj(SetIfTruthy(keyed, "role", Get(body, "role")))
                IN  /\ USERS_FILE' = saveUsers(Arr([users.a EXCEPT ![userIndex] = updated]))
                    /\ res' = Response(200, Obj(<< <<"status", Str("ok")>>,
                                                   <<"user", updated>> >>))
    /\ TrackUsers

\* the handler looking for the account first and protecting admin afterwards
DeleteUserFoundFirst(username) ==
    /\ req' = Request("DELETE /api/users/:username", Undefined, username, "")
    /\ LET users == loadUsers(USERS_FILE) IN
       IF \/ ~IsArray(users)
          \/ \E i \in 1..Len(users.a) : GetThrows(users.a[i])
       THEN /\ res' = Response(500, Obj(<< <<"error", Str("Failed to delete user")>> >>))
            /\ UNCHANGED USERS_FILE
       ELSE LET keep(u)       == Get(u, "username") # Str(username)
                filteredUsers == SelectSeq(users.a, keep)
            IN  IF Len(filteredUsers) = Len(users.a)
                THEN /\ res' = Response(404, Obj(<< <<"error", Str("User not found")>> >>))
                     /\ UNCHANGED USERS_FILE
                ELSE IF username = "admin"
                THEN /\ res' = Response(403, Obj(<< <<"error",
                                 Str("Cannot delete admin user")>> >>))
                     /\ UNCHANGED USERS_FILE
                ELSE /\ USERS_FILE' = saveUsers(Arr(filteredUsers))
                     /\ res' = Response(200, Obj(<< <<"status", Str("ok")>>,
                                                    <<"deleted", Str(username)>> >>))
    /\ TrackUsers

\* app.delete("/api/users/:username")
DeleteUser(username) ==
    /\ req' = Request("DELETE /api/users/:username", Undefined, username, "")
    /\ LET users == loadUsers(USERS_FILE) IN
       IF username = "admin"
       THEN /\ res' = Response(403, Obj(<< <<"error", Str("Cannot delete admin user")>> >>))
            /\ UNCHANGED USERS_FILE
       ELSE IF \/ ~IsArray(users)
               \/ \E i \in 1..Len(users.a) : GetThrows(users.a[i])
       THEN /\ res' = Response(500, Obj(<< <<"error", Str("Failed to delete user")>> >>))
            /\ UNCHANGED USERS_FILE
       ELSE LET keep(u)       == Get(u, "username") # Str(username)
                filteredUsers == SelectSeq(users.a, keep)
            IN  IF Len(filteredUsers) = Len(users.a)
                THEN /\ res' = Response(404, Obj(<< <<"error", Str("User not found")>> >>))
                     /\ UNCHANGED USERS_FILE
                ELSE /\ USERS_FILE' = saveUsers(Arr(filteredUsers))
                     /\ res' = Response(200, Obj(<< <<"status", Str("ok")>>,
                                                    <<"deleted", Str(username)>> >>))
    /\ TrackUsers

\* what users.json may hold when the server starts: nothing, an empty text,
\* a text cut short, a list without admin
UsersOnDisk ==
    { NoFile, File(<<>>), File(Truncated),
      File(stringify(Arr(<< User("bob", "pw", "user") >>))) }

InitUsers ==
    \E u \in UsersOnDisk :
        /\ DATA_FILE = EnsureDataFile(NoFile)
        /\ DRAFT_FILE = EnsureDraftFile(NoFile, DATA_FILE)
        /\ req = Request("startup", Undefined, "", "")
        /\ res = Response(0, Undefined)
        /\ prev = "other"
        /\ since = "save"
        /\ inflight = NoneInFlight
        /\ USERS_FILE = EnsureUsersFile(u)

\* bodies of POST /api/users/create: a new account with a field too many, an
\* account named admin, and the same two names without password
CreateBodies ==
    { Obj(<< <<"username", Str("bob")>>, <<"password", Str("pw")>>,
             <<"role", Str("user")>>, <<"admin", Bool(TRUE)>> >>),
      User("admin", "pw", "user"),
      Obj(<< <<"username", Str("bob")>> >>),
      Obj(<< <<"username", Str("admin")>>, <<"role", Str("admin")>> >>) }

\* bodies of POST /api/users: no account, one account, not a list, a list
\* with an incomplete account, a list with null
UsersBodies ==
    { Arr(<<>>),
      Arr(<< User("bob", "pw", "user") >>),
      Obj(<<>>),
      Arr(<< Obj(<< <<"username", Str("bob")>> >>) >>),
      Arr(<< Null >>) }

\* bodies of PUT /api/users/:username: a new name, a new role
UpdateBodies ==
    { Obj(<< <<"newUsername", Str("admin")>> >>),
      Obj(<< <<"role", Str("admin")>> >>) }

Usernames == { "admin", "bob", "user" }

NextUsers ==
    \/ GetUsers
    \/ \E users \in UsersBodies : PostUsers(users)
    \/ \E body \in CreateBodies : PostUsersCreate(body)
    \/ \E username \in Usernames, body \in UpdateBodies : PutUser(username, body)
    \/ \E username \in Usernames : DeleteUser(username)

SpecUsers == InitUsers /\ [][NextUsers]_vars

(***************************************************************************)
(* The server process started, stopped and started again on the files it   *)
(* finds                                                                   *)
(***************************************************************************)
\* no process is running: the files hold what the next start-up will find
InitStopped ==
    \E d \in DataOnDisk, r \in DraftOnDisk :
        /\ DATA_FILE = d
        /\ DRAFT_FILE = r
        /\ USERS_FILE = NoFile
        /\ req = Request("off", Undefined, "", "")
        /\ res = Response(0, Undefined)
        /\ prev = "other"
        /\ since = "save"
        /\ inflight = NoneInFlight

Running == req.route # "off"

\* node server.js: the top-level statements that create the missing files
Startup ==
    /\ ~Running
    /\ DATA_FILE' = EnsureDataFile(DATA_FILE)
    /\ USERS_FILE' = EnsureUsersFile(USERS_FILE)
    /\ DRAFT_FILE' = EnsureDraftFile(DRAFT_FILE, DATA_FILE')
    /\ req' = Request("startup", Undefined, "", "")
    /\ res' = Response(0, Undefined)
    /\ prev' = "other"
    /\ since' = "save"
    /\ UNCHANGED inflight

\* the process ends; the files stay
Shutdown ==
    /\ Running
    /\ req' = Request("off", Undefined, "", "")
    /\ res' = Response(0, Undefined)
    /\ prev' = "other"
    /\ since' = "save"
    /\ UNCHANGED <<DATA_FILE, DRAFT_FILE, USERS_FILE, inflight>>

NextStartup ==
    \/ Startup
    \/ Shutdown
    \/ Running /\ \E newData \in FaultSaveBodies : PostSave(newData)
    \/ Running /\ PostPublish
    \/ Running /\ PostDiscard
    \/ Running /\ GetDraftStatus
    \/ Running /\ \E newLog \in ValidLogBodies : PostLogs(newLog)

SpecStartup == InitStopped /\ [][NextStartup]_vars

(***************************************************************************)
(* Vocabulary of the properties                                            *)
(***************************************************************************)
\* what loadPublished() and loadDraft() return in the current state
Published == loadData(DATA_FILE)
Draft     == loadDraft(DRAFT_FILE, DATA_FILE)

\* the logs and groups sequences of a document
LogsOf(doc)   == Get(doc, "logs").a
GroupsOf(doc) == Get(doc, "groups").a

\* the request just handled was this route and it succeeded
Served(route) == req.route = route /\ res.status = 200

\* the step handles a request of this route, successfully
Serves(route) == req'.route = route /\ res'.status = 200

ReadRoutes ==
    { "GET /api/data", "GET /api/draft", "GET /api/draft-status", "GET /api/logs" }

RECURSIVE StructEq(_, _)
\* structural equality of two documents: the same values under the same keys,
\* whatever order the keys were inserted in
StructEq(a, b) ==
    IF a.t # b.t THEN FALSE
    ELSE IF a.t = "arr"
         THEN /\ Len(a.a) = Len(b.a)
              /\ \A i \in 1..Len(a.a) : StructEq(a.a[i], b.a[i])
    ELSE IF a.t = "obj"
         THEN /\ {a.kv[i][1] : i \in 1..Len(a.kv)} = {b.kv[i][1] : i \in 1..Len(b.kv)}
              /\ \A i \in 1..Len(a.kv) : StructEq(a.kv[i][2], Get(b, a.kv[i][1]))
    ELSE a = b

(***************************************************************************)
(* Properties of the draft / publish / discard workflow                    *)
(***************************************************************************)
\* C1: right after a successful POST /api/save with body X, loadDraft() (what
\* GET /api/draft answers) is X itself: nothing of the previous draft is left
\* and nothing of X is lost.
C1_SaveThenLoadDraft ==
    Served("POST /api/save") => Draft = req.body

C1_Witness ==
    /\ Served("POST /api/save")
    /\ req.body = Snapshot(<<gA>>, <<eAp>>, TRUE)
    /\ Draft = req.body
    /\ LogsOf(Published) # LogsOf(Draft)

\* C2 as stated: a successful publish makes loadPublished() equal to the draft
\* as it was, leaves the draft file alone, and, when there has been a publish
\* before and no successful save since, leaves the published document as it was.
C2_Original ==
    [][ Serves("POST /api/publish") =>
          /\ loadData(DATA_FILE') = Draft
          /\ DRAFT_FILE' = DRAFT_FILE
          /\ (since \in {"clean", "log"} => loadData(DATA_FILE') = Published) ]_vars

\* C2 as amended: the second publish leaves the published document as it was
\* when neither a save nor a write of the activity log came in between.
C2_PublishCopiesDraft ==
    [][ Serves("POST /api/publish") =>
          /\ loadData(DATA_FILE') = Draft
          /\ DRAFT_FILE' = DRAFT_FILE
          /\ (since = "clean" => DATA_FILE' = DATA_FILE) ]_vars

C2_Witness ==
    /\ Served("POST /api/publish")
    /\ prev = "publish"
    /\ Published = Draft
    /\ LogsOf(Published) # <<>>

\* C3: a successful discard makes loadDraft() equal to loadPublished() and
\* leaves the published file alone; a discard right after a discard changes
\* neither file.
C3_DiscardCopiesPublished ==
    [][ Serves("POST /api/discard") =>
          /\ loadDraft(DRAFT_FILE', DATA_FILE') = loadData(DATA_FILE')
          /\ DATA_FILE' = DATA_FILE
          /\ (Served("POST /api/discard") => DRAFT_FILE' = DRAFT_FILE) ]_vars

C3_Witness ==
    /\ Served("POST /api/discard")
    /\ prev = "discard"
    /\ Draft = Published
    /\ LogsOf(Published) # <<>>

\* C4: GET /api/draft-status handled right after a successful publish or
\* discard answers hasChanges: false.
C4_NoChangesAfterPublishOrDiscard ==
    [][ /\ Served("POST /api/publish") \/ Served("POST /api/discard")
        /\ req'.route = "GET /api/draft-status"
        => res' = Response(200, Obj(<< <<"hasChanges", Bool(FALSE)>> >>)) ]_vars

C4_Witness ==
    /\ req.route = "GET /api/draft-status"
    /\ prev \in {"publish", "discard"}
    /\ res.body = Obj(<< <<"hasChanges", Bool(FALSE)>> >>)
    /\ LogsOf(Published) # <<>>

\* C5 as stated: GET /api/draft-status answers hasChanges: false exactly when
\* the draft and the published document are structurally equal, whatever the
\* order of their keys.
C5_StatusIsStructural ==
    req.route = "GET /api/draft-status" =>
        res.body = Obj(<< <<"hasChanges", Bool(~StructEq(Draft, Published))>> >>)

\* C6 as stated: a step that is not a publish leaves the published document
\* as it was.
C6_Original ==
    [][ req'.route # "POST /api/publish" => loadData(DATA_FILE') = Published ]_vars

\* C6 as amended: only a publish and the writes of the activity log (POST
\* /api/logs and the DELETE /api/logs routes) change the published file; a
\* save, a discard and the reads leave it as it was.
C6_PublishedWriters ==
    [][ req'.route \notin ({"POST /api/publish"} \cup LogRoutes) =>
          DATA_FILE' = DATA_FILE ]_vars

C6_Witness ==
    /\ Served("POST /api/save")
    /\ LogsOf(Published) # <<>>
    /\ ~StructEq(Draft, Published)

\* C7: the four reads change neither file, also when loadDraft() falls back
\* to the published document.
C7_ReadsWriteNothing ==
    [][ req'.route \in ReadRoutes =>
          /\ DATA_FILE' = DATA_FILE
          /\ DRAFT_FILE' = DRAFT_FILE ]_vars

C7_Witness ==
    /\ Served("GET /api/draft")
    /\ ~parse(DRAFT_FILE.text).ok
    /\ res.body = Published
    /\ LogsOf(Published) # <<>>

\* C8: POST /api/save with no body, or with groups or logs that is not an
\* array, answers 400 and changes neither file; the empty document is accepted
\* and becomes the draft.
C8_SaveValidates ==
    [][ req'.route = "POST /api/save" =>
          LET body == req'.body IN
          /\ (\/ body = Undefined
              \/ Get(body, "groups").t # "arr"
              \/ Get(body, "logs").t # "arr")
             => /\ res'.status = 400
                /\ DATA_FILE' = DATA_FILE
                /\ DRAFT_FILE' = DRAFT_FILE
          /\ body = Snapshot(<<>>, <<>>, TRUE)
             => /\ res'.status = 200
                /\ loadDraft(DRAFT_FILE', DATA_FILE') = body ]_vars

C8_Witness ==
    /\ req.route = "POST /api/save"
    /\ res.status = 400
    /\ Get(req.body, "groups").t = "arr"
    /\ Get(req.body, "logs").t # "arr"
    /\ LogsOf(Draft) # <<>>

(***************************************************************************)
(* Properties of the activity log                                          *)
(***************************************************************************)
\* a field that is missing, and a field a JavaScript test takes for false
Missing(v) == v = Undefined
Falsy(v)   == v \in {Undefined, Null, Bool(FALSE), Num(0), Str("")}

\* what POST /api/logs must do with an entry that is refused / accepted
AppendRefused ==
    /\ res'.status = 400
    /\ DATA_FILE' = DATA_FILE
AppendAccepted ==
    /\ res'.status = 200
    /\ LogsOf(loadData(DATA_FILE')) = Append(LogsOf(Published), req'.body)
    /\ Get(loadData(DATA_FILE'), "groups") = Get(Published, "groups")

\* C9 as stated: POST /api/logs answers 400 and keeps the logs when date or
\* type is missing; otherwise the new logs are the old ones followed by the
\* entry, and groups is unchanged.
C9_Original ==
    [][ req'.route = "POST /api/logs" =>
          IF Missing(Get(req'.body, "date")) \/ Missing(Get(req'.body, "type"))
          THEN AppendRefused ELSE AppendAccepted ]_vars

\* C9 as amended: the entry is refused when date or type is missing or falsy
\* (an empty string, 0, false or null).
C9_AppendAtEnd ==
    [][ req'.route = "POST /api/logs" =>
          IF Falsy(Get(req'.body, "date")) \/ Falsy(Get(req'.body, "type"))
          THEN AppendRefused ELSE AppendAccepted ]_vars

C9_Witness ==
    /\ Served("POST /api/logs")
    /\ Len(LogsOf(Published)) = 2
    /\ LogsOf(Published)[1] # req.body
    /\ LogsOf(Published)[2] = req.body
    /\ GroupsOf(Published) # <<>>

\* the entry is a lifecycle marker; its group is the given one but for case
IsLifecycle(l) == Get(l, "type") \in {Str("group-create"), Str("group-delete")}
GroupIs(l, groupName) ==
    /\ Get(l, "group").t = "str"
    /\ toLowerCase(Get(l, "group").s) = toLowerCase(groupName)

\* an orphan: an entry with no group or with the group "unknowngroup" in any
\* case and, when emptyToo is set, an entry whose group is the empty string
IsOrphan(l, emptyToo) ==
    \/ Get(l, "group") = Undefined
    \/ emptyToo /\ Get(l, "group") = Str("")
    \/ GroupIs(l, "unknowngroup")

\* what DELETE /api/logs/:groupName/:date must do: the entries of the date
\* that are lifecycle markers, of the group, or orphans go, the others stay in
\* their order, and removed counts those that went
CascadeRemoves(emptyToo) ==
    LET old        == LogsOf(Published)
        groupName  == Get(res'.body, "groupName").s
        date       == Get(res'.body, "date").s
        Goes(l)    == /\ Get(l, "date") = Str(date)
                      /\ IsLifecycle(l) \/ GroupIs(l, groupName) \/ IsOrphan(l, emptyToo)
        Stays(l)   == ~Goes(l)
    IN  /\ res'.status = 200
        /\ groupName = decodeURIComponent(req'.p1)
        /\ date = decodeURIComponent(req'.p2)
        /\ LogsOf(loadData(DATA_FILE')) = SelectSeq(old, Stays)
        /\ Get(res'.body, "removed") = Num(Len(SelectSeq(old, Goes)))
        /\ (old = ScenarioLogs /\ groupName = "A" /\ date = D1)
           => /\ LogsOf(loadData(DATA_FILE')) = << ScenarioLogs[3], ScenarioLogs[4] >>
              /\ Get(res'.body, "removed") = Num(2)

\* C10 as stated: the same-date entries removed are the lifecycle markers,
\* those of the group (case-insensitively) and those whose group is absent or
\* "unknowngroup"; all others are kept in order; removed is their number, 2 in
\* the cascade scenario, which keeps ts3 and ts4.
C10_Original ==
    [][ req'.route = "DELETE /api/logs/:groupName/:date" =>
          CascadeRemoves(FALSE) ]_vars

\* C10 as amended: an entry whose group is the empty string is removed as an
\* orphan too.
C10_CascadeRule ==
    [][ req'.route = "DELETE /api/logs/:groupName/:date" =>
          CascadeRemoves(TRUE) ]_vars

C10_Witness ==
    /\ Served("DELETE /api/logs/:groupName/:date")
    /\ req.p1 = "A" /\ req.p2 = D1
    /\ Get(res.body, "removed") = Num(2)
    /\ LogsOf(Published) = << ScenarioLogs[3], ScenarioLogs[4] >>

(***************************************************************************)
(* Properties of the deletions by one path segment                         *)
(***************************************************************************)
\* the entry carries this ts once both are converted to strings
TsIs(l, ts) == String(Get(l, "ts")) = ts

\* the entries of a log that a test holds for, counted
Count(logs, Test(_)) == Len(SelectSeq(logs, Test))

\* the step is a DELETE /api/logs/<segment>, whichever route handles it
DeletesOneSegment ==
    req'.route \in { OneSegmentRoutes[i] : i \in 1..Len(OneSegmentRoutes) }

\* C11: deleteByTimestamp(ts) removes exactly the entries whose ts, converted
\* to a string, equals the identifier (a stored number 5 matches "5"), keeps
\* the others in their order, persists the result in the published document
\* and answers the number of entries removed.
C11_DeleteByTs ==
    [][ req'.route = "DELETE /api/logs/:ts" =>
          LET old     == LogsOf(Published)
              keep(l) == ~TsIs(l, req'.p1)
          IN  /\ res'.status = 200
              /\ LogsOf(loadData(DATA_FILE')) = SelectSeq(old, keep)
              /\ Get(loadData(DATA_FILE'), "groups") = Get(Published, "groups")
              /\ Get(res'.body, "removed") = Num(Len(old) - Len(SelectSeq(old, keep))) ]_vars

\* the entry with the number 7 stayed and the one matching "5" went
C11_Witness ==
    /\ Served("DELETE /api/logs/:ts")
    /\ req.p1 = "5"
    /\ Get(res.body, "removed") = Num(1)
    /\ LogsOf(Published) = << t7 >>

\* C12: in every reachable state deleteByTimestamp removes at most one entry
\* (removed is 0 or 1), and for a ts no entry carries it removes nothing and
\* leaves the logs as they were.
C12_AtMostOne ==
    [][ req'.route = "DELETE /api/logs/:ts" =>
          LET old        == LogsOf(Published)
              carries(l) == TsIs(l, req'.p1)
          IN  /\ Get(res'.body, "removed") \in { Num(0), Num(1) }
              /\ Count(old, carries) = 0 =>
                     /\ Get(res'.body, "removed") = Num(0)
                     /\ LogsOf(loadData(DATA_FILE')) = old ]_vars

\* C13: deleteByGroup(groupName) removes exactly the entries whose group is
\* groupName but for case; an entry without group does not match and stays,
\* and the operation completes normally.
C13_DeleteByGroup ==
    [][ req'.route = "DELETE /api/logs/:groupName" =>
          LET old     == LogsOf(Published)
              keep(l) == ~GroupIs(l, decodeURIComponent(req'.p1))
          IN  /\ res'.status = 200
              /\ LogsOf(loadData(DATA_FILE')) = SelectSeq(old, keep)
              /\ Get(res'.body, "removed") = Num(Len(old) - Len(SelectSeq(old, keep))) ]_vars

\* C14: a DELETE /api/logs/G whose segment G is the group of some entries
\* and the ts of none removes every published entry whose group is G but for
\* case and answers their number.
C14_GroupSegment ==
    [][ DeletesOneSegment =>
          LET old        == LogsOf(Published)
              G          == req'.p1
              carries(l) == TsIs(l, G)
              ofGroup(l) == GroupIs(l, G)
              keep(l)    == ~GroupIs(l, G)
          IN  Count(old, ofGroup) > 0 /\ Count(old, carries) = 0 =>
                  /\ LogsOf(loadData(DATA_FILE')) = SelectSeq(old, keep)
                  /\ Get(res'.body, "removed") = Num(Count(old, ofGroup)) ]_vars

(***************************************************************************)
(* Properties of requests in flight                                        *)
(***************************************************************************)
\* request i was an append / a save and was answered with 200
Appended(i) ==
    /\ inflight[i].route = "POST /api/logs"
    /\ inflight[i].pc = "done"
    /\ inflight[i].status = 200
Saved(i) ==
    /\ inflight[i].route = "POST /api/save"
    /\ inflight[i].pc = "done"
    /\ inflight[i].status = 200

\* the number of places of the published logs that hold the entry
Occurrences(entry) ==
    Cardinality({ k \in 1..Len(LogsOf(Published)) : LogsOf(Published)[k] = entry })

\* C15: two POST /api/logs with distinct entries handled concurrently: in
\* every interleaving both entries are in the published logs once both
\* requests have completed.
C15_BothAppended ==
    \A i, j \in 1..NumRequests :
        i # j /\ Appended(i) /\ Appended(j) =>
            /\ Occurrences(inflight[i].body) >= 1
            /\ Occurrences(inflight[j].body) >= 1

\* both appends were in flight and the second was answered first
C15_Witness ==
    /\ Appended(1) /\ Appended(2)
    /\ inflight[2].seq < inflight[1].seq
    /\ LogsOf(Published) = << eA, EntryOf(2), EntryOf(1) >>

\* the save answered last among those answered so far
LastSaved ==
    CHOOSE i \in 1..NumRequests :
        Saved(i) /\ \A j \in 1..NumRequests : Saved(j) => inflight[j].seq <= inflight[i].seq

\* C16: saves with distinct markers issued concurrently: at every point the
\* draft is the body of exactly one save already applied, the one applied
\* last, so the final draft is the body of the save applied last.
C16_LastSaveWins ==
    (\E i \in 1..NumRequests : Saved(i)) =>
        /\ Draft = inflight[LastSaved].body
        /\ Cardinality({ i \in 1..NumRequests :
                             Saved(i) /\ Draft = inflight[i].body }) = 1

\* every request was a save, and the first was applied last
C16_Witness ==
    /\ \A i \in 1..NumRequests : Saved(i)
    /\ inflight[1].seq = NumRequests
    /\ Draft = DraftOf(1)

(***************************************************************************)
(* Properties of writes that do not finish                                 *)
(***************************************************************************)
\* the document the request of the step was writing
WrittenDoc ==
    CASE req'.route = "POST /api/save"    -> req'.body
      [] req'.route = "POST /api/publish" -> Draft
      [] req'.route = "POST /api/discard" -> Published
      [] req'.route = "POST /api/logs"    ->
             WithLogs(Published, Append(LogsOf(Published), req'.body))

\* C17: the write of a document is atomic for its readers: after a crash
\* during a save, a load returns the complete previous document or the
\* complete new one, never a partial one and never the empty default in
\* place of content.
C17_AtomicWrite ==
    [][ res'.status = 0 =>
          IF req'.route \in { "POST /api/save", "POST /api/discard" }
          THEN loadDraft(DRAFT_FILE', DATA_FILE') \in { Draft, WrittenDoc }
          ELSE loadData(DATA_FILE') \in { Published, WrittenDoc } ]_vars

\* the bodies of the answers to a write that threw
WriteErrors ==
    { Failure([code |-> c, file |-> NoFile], caught).body :
          c \in { "EACCES", "ENOSPC" },
          caught \in { "", "Publish failed: ", "Discard failed: " } }

\* C18: when the storage write of a mutating operation fails, the failure is
\* answered with HTTP 500 and both stored documents hold exactly the content
\* they had before.
C18_FailedWriteKeepsBoth ==
    [][ res'.body \in WriteErrors =>
          /\ res'.status = 500
          /\ DATA_FILE' = DATA_FILE
          /\ DRAFT_FILE' = DRAFT_FILE ]_vars

(***************************************************************************)
(* Properties of loadData and loadDraft                                    *)
(***************************************************************************)
\* the draft file gives loadDraft nothing to return: it is absent, empty or
\* not JSON
DraftUnusable ==
    \/ ~DRAFT_FILE.exists
    \/ DRAFT_FILE.text = <<>>
    \/ ~parse(DRAFT_FILE.text).ok

\* C19: loadDraft() returns the published Snapshot, not the empty one,
\* whenever the draft document is absent, unreadable, empty or malformed
\* while the published document is non-empty.
C19_DraftFallsBack ==
    DraftUnusable /\ Published # EmptySnapshot => Draft = Published

\* a Snapshot: groups and logs are both sequences
IsSnapshot(doc) == IsArray(Get(doc, "groups")) /\ IsArray(Get(doc, "logs"))

\* C20: whatever the backing files hold (nothing, an empty text, malformed
\* text, or JSON of another shape such as null, [] or {}), loadPublished()
\* and loadDraft() return a Snapshot whose groups and logs are sequences, so
\* that no log operation faults on a missing logs field.
C20_AlwaysSnapshot ==
    /\ IsSnapshot(Published)
    /\ IsSnapshot(Draft)
    /\ req.route \in LogRoutes \cup { "GET /api/logs" } => res # Uncaught

(***************************************************************************)
(* Properties of the accounts                                              *)
(***************************************************************************)
\* what loadUsers() returns in the current state
Users == loadUsers(USERS_FILE)

\* some account carries the username of the body of the step's request
NameTaken ==
    \E i \in 1..Len(Users.a) :
        Get(Users.a[i], "username") = Get(req'.body, "username")

\* the body of the step's request gives a username, a password and a role
Complete == ~UserIncomplete(req'.body)

\* the step added the account of the body at the end and kept the others
Created ==
    loadUsers(USERS_FILE') =
        Arr(Append(Users.a, Obj(<< <<"username", Get(req'.body, "username")>>,
                                   <<"password", Get(req'.body, "password")>>,
                                   <<"role", Get(req'.body, "role")>> >>)))

\* C21 as stated: POST /api/users/create with a username that already exists
\* answers 409 and leaves the users document unchanged; a successful create
\* adds exactly one account and keeps the others.
C21_Original ==
    [][ req'.route = "POST /api/users/create" =>
          IF NameTaken
          THEN res'.status = 409 /\ USERS_FILE' = USERS_FILE
          ELSE res'.status = 200 => Created ]_vars

\* C21 as amended: the 409 is the answer when the body gives a username, a
\* password and a role; a body without one of them is answered 400, whether
\* or not the username exists, and the users document is unchanged as well.
C21_CreateUnique ==
    [][ req'.route = "POST /api/users/create" =>
          IF ~Complete
          THEN res'.status = 400 /\ USERS_FILE' = USERS_FILE
          ELSE IF NameTaken
          THEN res'.status = 409 /\ USERS_FILE' = USERS_FILE
          ELSE res'.status = 200 /\ Created ]_vars

\* the account named admin was refused a second time, after bob was created
C21_Witness ==
    /\ req.route = "POST /api/users/create"
    /\ res.status = 409
    /\ Get(req.body, "username") = Str("admin")
    /\ Len(Users.a) = 3
    /\ Get(Users.a[3], "username") = Str("bob")

\* C22: DELETE /api/users/admin is always refused with 403 and leaves the
\* users document unchanged, in every reachable state and whether or not an
\* account named admin exists.
C22_AdminProtected ==
    [][ req'.route = "DELETE /api/users/:username" /\ req'.p1 = "admin" =>
          /\ res'.status = 403
          /\ USERS_FILE' = USERS_FILE ]_vars

\* the deletion was refused although no account is named admin
C22_Witness ==
    /\ req.route = "DELETE /api/users/:username"
    /\ req.p1 = "admin"
    /\ res.status = 403
    /\ Users.a # <<>>
    /\ \A i \in 1..Len(Users.a) : Get(Users.a[i], "username") # Str("admin")

(***************************************************************************)
(* Properties of the logs across the other operations                      *)
(***************************************************************************)
\* the three deletions of log entries
DeleteRoutes ==
    { "DELETE /api/logs/:ts", "DELETE /api/logs/:groupName",
      "DELETE /api/logs/:groupName/:date" }

\* the entry is in the logs
InLogs(entry, logs) == \E k \in 1..Len(logs) : logs[k] = entry

\* C23: an entry accepted by POST /api/logs stays in the published logs
\* until one of the three deletions removes it: the operation that follows
\* the append, when it is not a deletion (a publish or a saveDraft, say),
\* does not drop it.
C23_AppendedStays ==
    [][ Served("POST /api/logs") /\ req'.route \notin DeleteRoutes =>
          InLogs(req.body, LogsOf(loadData(DATA_FILE'))) ]_vars

\* C25: in every reachable state no two entries of the published logs have
\* the same ts, compared as strings.
C25_UniqueTs ==
    \A j, k \in 1..Len(LogsOf(Published)) :
        j # k => String(Get(LogsOf(Published)[j], "ts"))
                     # String(Get(LogsOf(Published)[k], "ts"))

(***************************************************************************)
(* Properties of start-up                                                  *)
(***************************************************************************)
\* C24: at start-up an absent draft document is created as a copy of the
\* published Snapshot (the empty Snapshot when the published document is
\* absent too), so that hasChanges is false right after; a draft document
\* that exists is left unchanged, even when it differs from the published.
C24_StartupDraft ==
    [][ req'.route = "startup" =>
          IF ~DRAFT_FILE.exists
          THEN /\ DRAFT_FILE'.exists
               /\ loadDraft(DRAFT_FILE', DATA_FILE') = loadData(DATA_FILE)
               /\ loadDraft(DRAFT_FILE', DATA_FILE') = loadData(DATA_FILE')
               /\ ~DATA_FILE.exists => loadDraft(DRAFT_FILE', DATA_FILE') = EmptySnapshot
               /\ ~hasChanges(DATA_FILE', DRAFT_FILE')
          ELSE DRAFT_FILE' = DRAFT_FILE ]_vars

\* right after a start-up the draft file is the text of a published document
\* that is not empty: the file was written by this start-up
C24_Witness ==
    /\ req.route = "startup"
    /\ Published # EmptySnapshot
    /\ DRAFT_FILE.text = stringify(Published)
    /\ Draft = Published

====
